---- MODULE Spec2Model ----
(***************************************************************************)
(* SQL validation core of oss-data-analyst:                                *)
(*   normalizeSQLiteQuotes, syntaxScan, semanticCheck  (lib/sql/validate)  *)
(*   isQuoteSyntaxError                                (lib/execute/errors)*)
(* Text is a sequence of one-character strings.                            *)
(***************************************************************************)
EXTENDS Integers, Sequences, FiniteSets, TLC

VARIABLES pc, sql, registry, i, result, last, res, plan, policy, sem, err, info

vars == <<pc, sql, registry, i, result, last, res, plan, policy, sem, err, info>>

(***************************************************************************)
(* Characters and strings                                                  *)
(***************************************************************************)
Lowers == <<"a","b","c","d","e","f","g","h","i","j","k","l","m",
            "n","o","p","q","r","s","t","u","v","w","x","y","z">>

Uppers == <<"A","B","C","D","E","F","G","H","I","J","K","L","M",
            "N","O","P","Q","R","S","T","U","V","W","X","Y","Z">>

Digits == {"0","1","2","3","4","5","6","7","8","9"}

Range(s) == {s[k] : k \in DOMAIN s}

\* String.prototype.toUpperCase / the canonicalisation of the regex /i flag, per character
toUpperCase(c) ==
  IF \E k \in DOMAIN Lowers : Lowers[k] = c
  THEN Uppers[CHOOSE k \in DOMAIN Lowers : Lowers[k] = c]
  ELSE c

\* String.prototype.toLowerCase, per character
toLowerCaseChar(c) ==
  IF \E k \in DOMAIN Uppers : Uppers[k] = c
  THEN Lowers[CHOOSE k \in DOMAIN Uppers : Uppers[k] = c]
  ELSE c

\* token.toLowerCase()
toLowerCase(s) == [k \in DOMAIN s |-> toLowerCaseChar(s[k])]

\* the regex class \w
IsWordChar(c) == c \in Range(Lowers) \cup Range(Uppers) \cup Digits \cup {"_"}

\* the characters String.prototype.trim strips
WhiteSpace == {" ", "\n", "\t", "\r"}

RECURSIVE trimStart(_)
trimStart(s) ==
  IF s # <<>> /\ Head(s) \in WhiteSpace THEN trimStart(Tail(s)) ELSE s

RECURSIVE trimEnd(_)
trimEnd(s) ==
  IF s # <<>> /\ s[Len(s)] \in WhiteSpace
  THEN trimEnd(SubSeq(s, 1, Len(s) - 1)) ELSE s

\* sql.trim()
trim(s) == trimEnd(trimStart(s))

\* s.split(sep) for a one-character separator: the pieces between separators
RECURSIVE splitFrom(_, _, _, _)
splitFrom(s, sep, k, cur) ==
  IF k > Len(s) THEN <<cur>>
  ELSE IF s[k] = sep THEN <<cur>> \o splitFrom(s, sep, k + 1, <<>>)
  ELSE splitFrom(s, sep, k + 1, Append(cur, s[k]))

split(s, sep) == splitFrom(s, sep, 1, <<>>)

\* s.endsWith(c) for a one-character suffix
endsWith(s, c) == s # <<>> /\ s[Len(s)] = c

\* s.includes(c) for a one-character needle
includes(s, c) == \E k \in DOMAIN s : s[k] = c

\* (s.match(/ab/g) || []).length for a two-character literal pattern:
\* leftmost matches, each next search resuming after the previous match
RECURSIVE matchCountFrom(_, _, _, _)
matchCountFrom(s, a, b, k) ==
  IF k + 1 > Len(s) THEN 0
  ELSE IF s[k] = a /\ s[k + 1] = b THEN 1 + matchCountFrom(s, a, b, k + 2)
  ELSE matchCountFrom(s, a, b, k + 1)

matchCount(s, a, b) == matchCountFrom(s, a, b, 1)

(***************************************************************************)
(* Schema registry (read only): entity key -> entity                       *)
(***************************************************************************)
\* an entity as the loader hands it over, lookup indexes included
EntityJson(name, table, dimensions, time_dimensions, measures, metrics, aliasIndex) ==
  [name |-> name, table |-> table, dimensions |-> dimensions,
   time_dimensions |-> time_dimensions, measures |-> measures,
   _dimIndex |-> {dimensions[k].name : k \in DOMAIN dimensions},
   _measureIndex |-> {measures[k].name : k \in DOMAIN measures},
   _metricIndex |-> metrics,
   _reverseAliasIndex |-> aliasIndex]

Dim(name, aliases) == [name |-> name, aliases |-> aliases]
Named(name) == [name |-> name]

\* new Map(): no entity
EmptyRegistry == [k \in {} |-> {}]

\* registry.has(key)
has(reg, key) == key \in DOMAIN reg

(***************************************************************************)
(* normalizeSQLiteQuotes                                                   *)
(***************************************************************************)
\* the set built by the loop over the registry, without the aliases
KnownWithoutAliases(reg) ==
  UNION { {reg[e].name, reg[e].table}
          \cup {reg[e].dimensions[k].name : k \in DOMAIN reg[e].dimensions}
          \cup {reg[e].time_dimensions[k].name : k \in DOMAIN reg[e].time_dimensions}
          \cup {reg[e].measures[k].name : k \in DOMAIN reg[e].measures}
        : e \in DOMAIN reg }

knownIdentifiers(reg) ==
  UNION { {reg[e].name, reg[e].table}
          \cup {reg[e].dimensions[k].name : k \in DOMAIN reg[e].dimensions}
          \cup UNION {Range(reg[e].dimensions[k].aliases) : k \in DOMAIN reg[e].dimensions}
          \cup {reg[e].time_dimensions[k].name : k \in DOMAIN reg[e].time_dimensions}
          \cup {reg[e].measures[k].name : k \in DOMAIN reg[e].measures}
        : e \in DOMAIN reg }

sqlKeywords == {
  <<"s","e","l","e","c","t">>,
  <<"f","r","o","m">>,
  <<"w","h","e","r","e">>,
  <<"g","r","o","u","p">>,
  <<"b","y">>,
  <<"o","r","d","e","r">>,
  <<"h","a","v","i","n","g">>,
  <<"j","o","i","n">>,
  <<"l","e","f","t">>,
  <<"r","i","g","h","t">>,
  <<"i","n","n","e","r">>,
  <<"o","u","t","e","r">>,
  <<"o","n">>,
  <<"a","s">>,
  <<"a","n","d">>,
  <<"o","r">>,
  <<"n","o","t">>,
  <<"c","o","u","n","t">>,
  <<"s","u","m">>,
  <<"a","v","g">>,
  <<"m","i","n">>,
  <<"m","a","x">>,
  <<"d","i","s","t","i","n","c","t">>,
  <<"l","i","m","i","t">>,
  <<"o","f","f","s","e","t">> }

IsLetter(c) == c \in Range(Lowers) \cup Range(Uppers)

\* /^[a-z_][a-z0-9_]*$/i.test(token)
identifierPattern(token) ==
  /\ token # <<>>
  /\ IsLetter(token[1]) \/ token[1] = "_"
  /\ \A k \in 2..Len(token) : IsLetter(token[k]) \/ token[k] \in Digits \/ token[k] = "_"

\* the decision without the lowercased lookup in the known set
ExactLookupOnly(token, known) ==
  \/ token \in known
  \/ toLowerCase(token) \in sqlKeywords
  \/ identifierPattern(token)

\* const isIdentifier = ...
isIdentifier(token, known) ==
  \/ token \in known
  \/ toLowerCase(token) \in known
  \/ toLowerCase(token) \in sqlKeywords
  \/ identifierPattern(token)

\* a replace that replaces only the first single quote
RECURSIVE ReplaceFirstOnly(_)
ReplaceFirstOnly(token) ==
  IF token = <<>> THEN <<>>
  ELSE IF Head(token) = "'" THEN <<"'", "'">> \o Tail(token)
  ELSE <<Head(token)>> \o ReplaceFirstOnly(Tail(token))

\* token.replace(/'/g, "''")
RECURSIVE escapeQuotes(_)
escapeQuotes(token) ==
  IF token = <<>> THEN <<>>
  ELSE (IF Head(token) = "'" THEN <<"'", "'">> ELSE <<Head(token)>>)
       \o escapeQuotes(Tail(token))

\* sql[i], i counted from 0 as in the source
at(s, k) == s[k + 1]

\* the inner loop of the single-quote branch: copy up to and including the
\* first ' that is not preceded by a backslash, or to the end of the input
RECURSIVE closeSingle(_, _, _)
closeSingle(s, k, out) ==
  IF k >= Len(s) THEN [i |-> k, result |-> out]
  ELSE IF at(s, k) = "'" /\ at(s, k - 1) # "\\"
       THEN [i |-> k + 1, result |-> Append(out, at(s, k))]
       ELSE closeSingle(s, k + 1, Append(out, at(s, k)))

\* the inner loop of the double-quote branch: collect the token up to the
\* next " or the end of the input
RECURSIVE extractToken(_, _, _)
extractToken(s, k, token) ==
  IF k < Len(s) /\ at(s, k) # "\""
  THEN extractToken(s, k + 1, Append(token, at(s, k)))
  ELSE [i |-> k, token |-> token]

\* one iteration of the outer loop, single-quote branch
singleBranch(s, k, out) ==
  LET r == closeSingle(s, k + 1, Append(out, "'"))
  IN  [i |-> r.i, result |-> r.result, branch |-> "single", token |-> <<>>,
       emit |-> SubSeq(r.result, Len(out) + 1, Len(r.result))]

\* one iteration of the outer loop, double-quote branch
doubleBranch(s, k, out, known) ==
  LET t    == extractToken(s, k + 1, <<>>)
      emit == IF isIdentifier(t.token, known)
              THEN <<"\"">> \o t.token \o <<"\"">>
              ELSE <<"'">> \o escapeQuotes(t.token) \o <<"'">>
  IN  [i |-> t.i + 1, result |-> out \o emit, branch |-> "double",
       token |-> t.token, emit |-> emit]

\* the regular-character branch without its i++
CursorNotAdvanced(s, k, out) ==
  [i |-> k, result |-> Append(out, at(s, k)), branch |-> "regular",
   token |-> <<>>, emit |-> <<at(s, k)>>]

\* the regular-character branch without its result += ch
CharacterNotCopied(s, k, out) ==
  [i |-> k + 1, result |-> out, branch |-> "regular",
   token |-> <<>>, emit |-> <<>>]

\* one iteration of the outer loop, any other character
regularBranch(s, k, out) ==
  [i |-> k + 1, result |-> Append(out, at(s, k)), branch |-> "regular",
   token |-> <<>>, emit |-> <<at(s, k)>>]

\* one iteration of the outer loop
iteration(s, k, out, known) ==
  IF at(s, k) = "'" THEN singleBranch(s, k, out)
  ELSE IF at(s, k) = "\"" THEN doubleBranch(s, k, out, known)
  ELSE regularBranch(s, k, out)

\* while (i < sql.length) { ... }
RECURSIVE outerLoop(_, _, _, _)
outerLoop(s, k, out, known) ==
  IF k < Len(s)
  THEN LET n == iteration(s, k, out, known)
       IN  outerLoop(s, n.i, n.result, known)
  ELSE out

normalizeSQLiteQuotes(s, reg) == outerLoop(s, 0, <<>>, knownIdentifiers(reg))

(***************************************************************************)
(* syntaxScan                                                              *)
(***************************************************************************)
\* the regex list; word is the literal between the two \b, source is rx.source
DISALLOWED == <<
  [word |-> <<"D","R","O","P">>,                 source |-> "\\bDROP\\b"],
  [word |-> <<"T","R","U","N","C","A","T","E">>, source |-> "\\bTRUNCATE\\b"],
  [word |-> <<"A","L","T","E","R">>,             source |-> "\\bALTER\\b"],
  [word |-> <<"C","R","E","A","T","E">>,         source |-> "\\bCREATE\\b"],
  [word |-> <<"I","N","S","E","R","T">>,         source |-> "\\bINSERT\\b"],
  [word |-> <<"U","P","D","A","T","E">>,         source |-> "\\bUPDATE\\b"],
  [word |-> <<"D","E","L","E","T","E">>,         source |-> "\\bDELETE\\b"],
  [word |-> <<"M","E","R","G","E">>,             source |-> "\\bMERGE\\b"],
  [word |-> <<"C","O","P","Y">>,                 source |-> "\\bCOPY\\b"],
  [word |-> <<"P","U","T">>,                     source |-> "\\bPUT\\b"],
  [word |-> <<"G","E","T">>,                     source |-> "\\bGET\\b"] >>

\* the regex assertion \b before position p of s (p in 1..Len(s)+1)
wordBoundary(s, p) ==
  LET before == p > 1 /\ IsWordChar(s[p - 1])
      after  == p <= Len(s) /\ IsWordChar(s[p])
  IN  before # after

\* the same test without the closing \b
BoundaryAfterMissing(word, s) ==
  \E p \in 1..(Len(s) - Len(word) + 1) :
    /\ wordBoundary(s, p)
    /\ \A k \in DOMAIN word : toUpperCase(s[p + k - 1]) = word[k]

\* /\bWORD\b/i.test(s)
rxTest(word, s) ==
  \E p \in 1..(Len(s) - Len(word) + 1) :
    /\ wordBoundary(s, p)
    /\ \A k \in DOMAIN word : toUpperCase(s[p + k - 1]) = word[k]
    /\ wordBoundary(s, p + Len(word))

Issue(text, arg) == [text |-> text, arg |-> arg]

MultipleStatements == Issue("Multiple statements detected.", "")
UnmatchedComment   == Issue("Unclosed or unmatched block comment.", "")
DisallowedToken(rx) == Issue("Disallowed token: ", rx.source)

\* res.ok = false; res.issues.push(issue)
fail(r, issue) == [ok |-> FALSE, issues |-> Append(r.issues, issue)]

\* the multi-statement rule
OnlyCountAboveOne(r, s) ==
  LET cleanedSql == trim(s)
      semis      == Len(split(cleanedSql, ";")) - 1
  IN  IF semis > 1 THEN fail(r, MultipleStatements) ELSE r

statementRule(r, s) ==
  LET cleanedSql   == trim(s)
      semis        == Len(split(cleanedSql, ";")) - 1
      endsWithSemi == endsWith(cleanedSql, ";")
  IN  IF semis > 1 \/ (semis = 1 /\ ~endsWithSemi)
      THEN fail(r, MultipleStatements) ELSE r

\* the loop over DISALLOWED, from index k
RECURSIVE disallowedRule(_, _, _)
disallowedRule(r, s, k) ==
  IF k > Len(DISALLOWED) THEN r
  ELSE disallowedRule(IF rxTest(DISALLOWED[k].word, s)
                      THEN fail(r, DisallowedToken(DISALLOWED[k])) ELSE r,
                      s, k + 1)

\* the block-comment rule
CommentIssueKeepsOk(r, s) ==
  IF matchCount(s, "/", "*") # matchCount(s, "*", "/")
  THEN [r EXCEPT !.issues = Append(@, UnmatchedComment)] ELSE r

commentRule(r, s) ==
  LET openComments  == matchCount(s, "/", "*")
      closeComments == matchCount(s, "*", "/")
  IN  IF openComments # closeComments THEN fail(r, UnmatchedComment) ELSE r

\* const res = { ok: true, syntaxOk: true, issues: [] }
NewResult == [ok |-> TRUE, issues |-> <<>>]

syntaxScan(s) ==
  commentRule(disallowedRule(statementRule(NewResult, s), s, 1), s)

(***************************************************************************)
(* semanticCheck                                                           *)
(***************************************************************************)
\* String(e.message ?? e): the text of what verifyAllowedTables threw, an
\* Error carrying a message or a bare string
thrownText(e) == IF e.hasMessage THEN e.message ELSE e.value

\* the call without the try/catch: what is thrown leaves semanticCheck
Uncaught(issues, outcome) ==
  [raised |-> outcome.throws, issues |-> issues]

\* try { verifyAllowedTables(registry) } catch (e) { issues.push(...) }
tryVerifyAllowedTables(issues, outcome) ==
  [raised |-> FALSE,
   issues |-> IF outcome.throws
              THEN Append(issues, Issue(thrownText(outcome.error), <<>>))
              ELSE issues]

NotLoaded(e)      == Issue("Selected entity not loaded.", e)
JoinFromMissing(e) == Issue("Join edge from missing entity.", e)
JoinToMissing(e)  == Issue("Join edge to missing entity.", e)
DimensionNotFound(d) == Issue("Dimension not found in selected entities or aliases.", d)
MetricNotFound(m) == Issue("Metric/measure not found in selected entities or aliases.", m)
NoTimeDimensions  == Issue("Time range provided but no time dimensions available.", <<>>)

\* the loop over plan.selectedEntities that reports the first missing entity only
RECURSIVE FirstMissingOnly(_, _, _)
FirstMissingOnly(issues, selected, reg) ==
  IF selected = <<>> THEN issues
  ELSE IF ~has(reg, Head(selected)) THEN Append(issues, NotLoaded(Head(selected)))
  ELSE FirstMissingOnly(issues, Tail(selected), reg)

\* for (const e of plan.selectedEntities) ...
RECURSIVE entitiesLoaded(_, _, _)
entitiesLoaded(issues, selected, reg) ==
  IF selected = <<>> THEN issues
  ELSE entitiesLoaded(IF ~has(reg, Head(selected))
                      THEN Append(issues, NotLoaded(Head(selected))) ELSE issues,
                      Tail(selected), reg)

\* for (const j of plan.joinGraph) ...
RECURSIVE joinEdges(_, _, _)
joinEdges(issues, graph, reg) ==
  IF graph = <<>> THEN issues
  ELSE LET j  == Head(graph)
           a  == IF ~has(reg, j.from) THEN Append(issues, JoinFromMissing(j.from)) ELSE issues
           b  == IF ~has(reg, j.to) THEN Append(a, JoinToMissing(j.to)) ELSE a
       IN  joinEdges(b, Tail(graph), reg)

\* ent.time_dimensions.some(td => td.name === name)
hasTimeDim(ent, name) ==
  \E k \in DOMAIN ent.time_dimensions : ent.time_dimensions[k].name = name

\* ent._reverseAliasIndex.get(field) when it is truthy, else the empty text
canonicalOf(ent, field) ==
  IF field \in DOMAIN ent._reverseAliasIndex THEN ent._reverseAliasIndex[field] ELSE <<>>

\* the per-entity test without the alias lookup
NoAliasLookup(ent, field, checkDimensions, checkTime) ==
  \/ checkDimensions /\ field \in ent._dimIndex
  \/ checkTime /\ hasTimeDim(ent, field)

\* the per-entity test of existsInAnyEntity: dimension, time dimension, or alias of one
fieldInEntity(ent, field, checkDimensions, checkTime) ==
  LET canonical == canonicalOf(ent, field)
  IN  \/ checkDimensions /\ field \in ent._dimIndex
      \/ checkTime /\ hasTimeDim(ent, field)
      \/ /\ canonical # <<>>
         /\ \/ checkDimensions /\ canonical \in ent._dimIndex
            \/ checkTime /\ hasTimeDim(ent, canonical)

existsInAnyEntity(reg, name, checkDimensions, checkTime) ==
  IF includes(name, ".")
  THEN LET parts      == split(name, ".")
           entityName == parts[1]
           fieldName  == parts[2]
       IN  /\ has(reg, entityName)
           /\ fieldInEntity(reg[entityName], fieldName, checkDimensions, checkTime)
  ELSE \E e \in DOMAIN reg : fieldInEntity(reg[e], name, checkDimensions, checkTime)

\* for (const d of plan.intent.dimensions ?? []) ...
RECURSIVE dimensionsExist(_, _, _)
dimensionsExist(issues, dims, reg) ==
  IF dims = <<>> THEN issues
  ELSE dimensionsExist(IF ~existsInAnyEntity(reg, Head(dims), TRUE, TRUE)
                       THEN Append(issues, DimensionNotFound(Head(dims))) ELSE issues,
                       Tail(dims), reg)

\* the per-entity test of metricOrMeasureExists
metricInEntity(ent, field) ==
  LET canonical == canonicalOf(ent, field)
  IN  \/ field \in ent._metricIndex \/ field \in ent._measureIndex
      \/ /\ canonical # <<>>
         /\ canonical \in ent._metricIndex \/ canonical \in ent._measureIndex

metricOrMeasureExists(reg, name) ==
  IF includes(name, ".")
  THEN LET parts      == split(name, ".")
           entityName == parts[1]
           fieldName  == parts[2]
       IN  has(reg, entityName) /\ metricInEntity(reg[entityName], fieldName)
  ELSE \E e \in DOMAIN reg : metricInEntity(reg[e], name)

\* for (const m of plan.intent.metrics ?? []) ...
RECURSIVE metricsExist(_, _, _)
metricsExist(issues, metrics, reg) ==
  IF metrics = <<>> THEN issues
  ELSE metricsExist(IF ~metricOrMeasureExists(reg, Head(metrics))
                    THEN Append(issues, MetricNotFound(Head(metrics))) ELSE issues,
                    Tail(metrics), reg)

\* if (plan.intent.timeRange) ...
timeRangeCheck(issues, intent, reg) ==
  IF intent.timeRange /\ ~\E e \in DOMAIN reg : Len(reg[e].time_dimensions) > 0
  THEN Append(issues, NoTimeDimensions) ELSE issues

semanticCheck(pl, reg, outcome) ==
  LET verified == tryVerifyAllowedTables(<<>>, outcome)
      entities == entitiesLoaded(verified.issues, pl.selectedEntities, reg)
      joins    == joinEdges(entities, pl.joinGraph, reg)
      dims     == dimensionsExist(joins, pl.intent.dimensions, reg)
      metrics  == metricsExist(dims, pl.intent.metrics, reg)
      issues   == timeRangeCheck(metrics, pl.intent, reg)
      ok       == Len(issues) = 0
  IN  IF verified.raised
      THEN [raised |-> TRUE, ok |-> FALSE, issues |-> <<>>, semanticOk |-> FALSE]
      ELSE [raised |-> FALSE, ok |-> ok, issues |-> issues, semanticOk |-> ok]

(***************************************************************************)
(* isQuoteSyntaxError                                                      *)
(***************************************************************************)
UnrecognizedTokenText == <<"u","n","r","e","c","o","g","n","i","z","e","d"," ","t","o","k","e","n">>
NoSuchColumnText      == <<"n","o"," ","s","u","c","h"," ","c","o","l","u","m","n">>
SyntaxErrorText       == <<"s","y","n","t","a","x"," ","e","r","r","o","r">>
NearText              == <<"n","e","a","r">>

\* /literal/i.test(s)
testIgnoreCase(lit, s) ==
  \E p \in 1..(Len(s) - Len(lit) + 1) :
    \A k \in DOMAIN lit : toUpperCase(s[p + k - 1]) = toUpperCase(lit[k])

Quotes == {"\"", "'"}

\* first position from k on that holds no white space (Len(s) + 1 if none)
RECURSIVE skipSpace(_, _)
skipSpace(s, k) ==
  IF k <= Len(s) /\ s[k] \in WhiteSpace THEN skipSpace(s, k + 1) ELSE k

\* first position from k on that holds a quote character (Len(s) + 1 if none)
RECURSIVE nextQuote(_, _)
nextQuote(s, k) ==
  IF k <= Len(s) /\ s[k] \notin Quotes THEN nextQuote(s, k + 1) ELSE k

\* /no such column:\s*["']([^"']+)["']/i tried at position p: the captured
\* group, or the empty text when there is no match at p
captureAt(s, p) ==
  LET lit   == Append(NoSuchColumnText, ":")
      open  == skipSpace(s, p + Len(lit))
      close == nextQuote(s, open + 1)
  IN  IF /\ p + Len(lit) - 1 <= Len(s)
         /\ \A k \in DOMAIN lit : toUpperCase(s[p + k - 1]) = toUpperCase(lit[k])
         /\ open <= Len(s) /\ s[open] \in Quotes
         /\ close <= Len(s) /\ close > open + 1
      THEN SubSeq(s, open + 1, close - 1)
      ELSE <<>>

\* msg.match(/no such column:\s*["']([^"']+)["']/i): match[1] of the leftmost
\* match, or the empty text when match is null
columnName(s) ==
  IF \E p \in DOMAIN s : captureAt(s, p) # <<>>
  THEN captureAt(s, CHOOSE p \in DOMAIN s :
                      /\ captureAt(s, p) # <<>>
                      /\ \A q \in 1..(p - 1) : captureAt(s, q) = <<>>)
  ELSE <<>>

\* /^[A-Z_]+$/.test(colName)
capsAndUnderscores(colName) ==
  colName # <<>> /\ \A k \in DOMAIN colName : colName[k] \in Range(Uppers) \cup {"_"}

\* colName[0] === colName[0].toUpperCase() && !/^[A-Z_]+$/.test(colName)
looksLikeLiteral(colName) ==
  colName[1] = toUpperCase(colName[1]) /\ ~capsAndUnderscores(colName)

NoMatch == [matched |-> FALSE, message |-> <<>>, needsSingleQuotes |-> FALSE]
NeedsSingleQuotes(msg) == [matched |-> TRUE, message |-> msg, needsSingleQuotes |-> TRUE]

isQuoteSyntaxError(msg) ==
  IF testIgnoreCase(UnrecognizedTokenText, msg) /\ includes(msg, "\"")
  THEN NeedsSingleQuotes(msg)
  ELSE IF /\ testIgnoreCase(NoSuchColumnText, msg)
          /\ columnName(msg) # <<>>
          /\ looksLikeLiteral(columnName(msg))
  THEN NeedsSingleQuotes(msg)
  ELSE IF /\ testIgnoreCase(SyntaxErrorText, msg) \/ testIgnoreCase(NearText, msg)
          /\ includes(msg, "\"")
  THEN NeedsSingleQuotes(msg)
  ELSE NoMatch

(***************************************************************************)
(* Inputs                                                                  *)
(***************************************************************************)
SeqsUpTo(S, n) == UNION {[1..k -> S] : k \in 0..n}

RECURSIVE concat(_)
concat(pieces) ==
  IF pieces = <<>> THEN <<>> ELSE Head(pieces) \o concat(Tail(pieces))

\* length bound of the SQL text handed to normalizeSQLiteQuotes
MaxSqlLen == 5

NormChars == {"\"", "'", "\\", "a", "A"}

NormInputs == SeqsUpTo(NormChars, MaxSqlLen)

\* registries for the normaliser: none, and two one-entity registries whose
\* names are not lexical identifiers
NormRegistries ==
  { EmptyRegistry,
    [k \in {<<"a">>} |->
       EntityJson(<<"a">>, <<"\\", "A">>, <<Dim(<<"A", "\\">>, <<>>)>>,
                  <<>>, <<>>, {}, EmptyRegistry)],
    [k \in {<<"a">>} |->
       EntityJson(<<"a">>, <<"a">>, <<Dim(<<"a">>, << <<"\\", "a">> >>)>>,
                  <<Named(<<"a", "\\">>)>>, <<Named(<<"\\">>)>>, {}, EmptyRegistry)] }

\* number of pieces the text handed to syntaxScan is put together from
MaxPieces == 3

ScanPieces ==
  { <<";">>, <<" ">>, <<"x">>, <<"_">>, <<"/">>, <<"/", "*">>, <<"*", "/">>,
    <<"D","R","O","P">>, <<"G","e","t">>,
    <<"u","p","d","a","t","e">>,
    <<"c","r","e","a","t","e","d","_","a","t">> }

ScanInputs == {concat(ps) : ps \in SeqsUpTo(ScanPieces, MaxPieces)}

\* names used by the plans and registries handed to semanticCheck
customers == <<"c">>
products  == <<"p">>
orders    == <<"o">>
refunds   == <<"q">>
country   == <<"k">>
region    == <<"r">>
created   == <<"d">>
day       == <<"t">>
revenue   == <<"m">>
sales     == <<"s">>
margin    == <<"g">>
stale     == <<"x">>
label     == <<"n">>

\* the dotted field reference entity.field
dotted(entity, field) == entity \o <<".">> \o field

\* customers: dimension country (alias region), time dimension created
\* (alias day), measure revenue (alias sales), and an alias stale whose
\* canonical name is no field; products: dimension label, metric margin
SemRegistries ==
  { (customers :>
       EntityJson(customers, customers, <<Dim(country, <<region>>)>>,
                  <<Named(created)>>, <<Named(revenue)>>, {},
                  (region :> country) @@ (day :> created) @@ (sales :> revenue)
                    @@ (stale :> <<"z">>)))
    @@ (products :>
       EntityJson(products, products, <<Dim(label, <<>>)>>, <<>>, <<>>, {margin},
                  EmptyRegistry)),
    (products :>
       EntityJson(products, products, <<Dim(label, <<region>>)>>, <<>>, <<>>, {margin},
                  (region :> label))) }

\* length bound of plan.selectedEntities
MaxSelected == 2

SelectableEntities == {customers, orders, refunds}

\* length bound of plan.intent.dimensions
MaxDimensions == 2

DimensionRefs ==
  { region, dotted(customers, region), dotted(products, region), day, stale }

JoinGraphs ==
  { <<>>, <<[from |-> products, to |-> customers], [from |-> orders, to |-> refunds]>> }

MetricLists ==
  { <<>>, <<sales, dotted(products, revenue)>> }

PolicyOutcomes ==
  { [throws |-> FALSE, error |-> [hasMessage |-> FALSE, message |-> "", value |-> ""]],
    [throws |-> TRUE,
     error |-> [hasMessage |-> TRUE, message |-> "Table not allowed.", value |-> ""]],
    [throws |-> TRUE,
     error |-> [hasMessage |-> FALSE, message |-> "", value |-> "denied"]] }

Plans ==
  { [selectedEntities |-> sel, joinGraph |-> jg,
     intent |-> [dimensions |-> ds, metrics |-> ms, timeRange |-> tr]] :
    sel \in SeqsUpTo(SelectableEntities, MaxSelected), jg \in JoinGraphs,
    ds \in SeqsUpTo(DimensionRefs, MaxDimensions), ms \in MetricLists,
    tr \in BOOLEAN }

\* number of pieces an error message is put together from
\* texts handed to the pipeline normalizeSQLiteQuotes -> syntaxScan
MaxPipePieces == 4

PipePieces ==
  { <<"\"">>, <<"'">>, <<"\\">>, <<";">>, <<" ">>,
    <<"D","R","O","P">>, <<"/", "*">>, <<"*", "/">> }

PipeInputs == {concat(ps) : ps \in SeqsUpTo(PipePieces, MaxPipePieces)}

\* the registry without entities and the registries that know a name the
\* pipeline texts can spell but the identifier pattern rejects
PipeRegistries ==
  {reg \in NormRegistries :
     reg = EmptyRegistry \/ <<"\\">> \in knownIdentifiers(reg)}

MaxMessagePieces == 4

MessagePieces ==
  { NoSuchColumnText \o <<":", " ">>,
    <<"N","o"," ","S","u","c","h"," ","C","o","l","u","m","n",":">>,
    <<"\"">>, <<"'">>,
    <<"T","e","c","h">>, <<"T","E","C","H","_","I","D">>, <<"t","e","c","h">>,
    <<"_","i","d">>, <<"1","s","t">>,
    NearText \o <<" ">>, SyntaxErrorText, UnrecognizedTokenText \o <<":", " ">> }

Messages == {concat(ps) : ps \in SeqsUpTo(MessagePieces, MaxMessagePieces)}

(***************************************************************************)
(* State                                                                   *)
(***************************************************************************)
NoStep == [branch |-> "none", token |-> <<>>, emit |-> <<>>, from |-> 0]

(***************************************************************************)
(* normalizeSQLiteQuotes, one outer-loop iteration per step                *)
(***************************************************************************)
InitNorm ==
  /\ pc = "scan"
  /\ sql \in NormInputs
  /\ registry \in NormRegistries
  /\ i = 0 /\ result = <<>> /\ last = NoStep
  /\ res = NewResult
  /\ plan = <<>> /\ policy = <<>> /\ sem = <<>>
  /\ err = <<>> /\ info = <<>>

Step(n) ==
  /\ i' = n.i
  /\ result' = n.result
  /\ last' = [branch |-> n.branch, token |-> n.token, emit |-> n.emit, from |-> i]
  /\ UNCHANGED <<pc, sql, registry, res, plan, policy, sem, err, info>>

SingleQuoted ==
  /\ pc = "scan" /\ i < Len(sql) /\ at(sql, i) = "'"
  /\ Step(singleBranch(sql, i, result))

DoubleQuoted ==
  /\ pc = "scan" /\ i < Len(sql) /\ at(sql, i) = "\""
  /\ Step(doubleBranch(sql, i, result, knownIdentifiers(registry)))

Regular ==
  /\ pc = "scan" /\ i < Len(sql) /\ at(sql, i) \notin {"'", "\""}
  /\ Step(regularBranch(sql, i, result))

Return ==
  /\ pc = "scan" /\ i >= Len(sql)
  /\ pc' = "returned"
  /\ UNCHANGED <<sql, registry, i, result, last, res, plan, policy, sem, err, info>>

NextNorm == SingleQuoted \/ DoubleQuoted \/ Regular \/ Return

SpecNorm == InitNorm /\ [][NextNorm]_vars

(***************************************************************************)
(* syntaxScan, one call per behaviour                                      *)
(***************************************************************************)
InitScan ==
  /\ pc = "call"
  /\ sql \in ScanInputs
  /\ registry = EmptyRegistry
  /\ i = 0 /\ result = <<>> /\ last = NoStep
  /\ res = NewResult
  /\ plan = <<>> /\ policy = <<>> /\ sem = <<>>
  /\ err = <<>> /\ info = <<>>

SyntaxScan ==
  /\ pc = "call"
  /\ res' = syntaxScan(sql)
  /\ pc' = "scanned"
  /\ UNCHANGED <<sql, registry, i, result, last, plan, policy, sem, err, info>>

NextScan == SyntaxScan

SpecScan == InitScan /\ [][NextScan]_vars

(***************************************************************************)
(* semanticCheck, one call per behaviour                                   *)
(***************************************************************************)
InitSem ==
  /\ pc = "call"
  /\ sql = <<>>
  /\ registry \in SemRegistries
  /\ i = 0 /\ result = <<>> /\ last = NoStep
  /\ res = NewResult
  /\ plan \in Plans
  /\ policy \in PolicyOutcomes
  /\ sem = [raised |-> FALSE, ok |-> TRUE, issues |-> <<>>, semanticOk |-> TRUE]
  /\ err = <<>> /\ info = <<>>

SemanticCheck ==
  /\ pc = "call"
  /\ sem' = semanticCheck(plan, registry, policy)
  /\ pc' = "checked"
  /\ UNCHANGED <<sql, registry, i, result, last, res, plan, policy, err, info>>

NextSem == SemanticCheck

SpecSem == InitSem /\ [][NextSem]_vars

(***************************************************************************)
(* isQuoteSyntaxError, one call per behaviour                              *)
(***************************************************************************)
InitErr ==
  /\ pc = "call"
  /\ sql = <<>>
  /\ registry = EmptyRegistry
  /\ i = 0 /\ result = <<>> /\ last = NoStep
  /\ res = NewResult
  /\ plan = <<>> /\ policy = <<>> /\ sem = <<>>
  /\ err \in Messages
  /\ info = NoMatch

IsQuoteSyntaxError ==
  /\ pc = "call"
  /\ info' = isQuoteSyntaxError(err)
  /\ pc' = "classified"
  /\ UNCHANGED <<sql, registry, i, result, last, res, plan, policy, sem, err>>

NextErr == IsQuoteSyntaxError

SpecErr == InitErr /\ [][NextErr]_vars

(***************************************************************************)
(* The pipeline candidate SQL -> normalizeSQLiteQuotes -> syntaxScan       *)
(***************************************************************************)
InitPipe ==
  /\ pc = "call"
  /\ sql \in PipeInputs
  /\ registry \in PipeRegistries
  /\ i = 0 /\ result = <<>> /\ last = NoStep
  /\ res = NewResult
  /\ plan = <<>> /\ policy = <<>> /\ sem = <<>>
  /\ err = <<>> /\ info = <<>>

PipeNormalize ==
  /\ pc = "call"
  /\ result' = normalizeSQLiteQuotes(sql, registry)
  /\ pc' = "normalized"
  /\ UNCHANGED <<sql, registry, i, last, res, plan, policy, sem, err, info>>

PipeScan ==
  /\ pc = "normalized"
  /\ res' = syntaxScan(result)
  /\ pc' = "scanned"
  /\ UNCHANGED <<sql, registry, i, result, last, plan, policy, sem, err, info>>

NextPipe == PipeNormalize \/ PipeScan

SpecPipe == InitPipe /\ [][NextPipe]_vars

(***************************************************************************)
(* Properties of normalizeSQLiteQuotes (checked under SpecNorm)            *)
(***************************************************************************)
\* every entity, table, dimension, alias, time-dimension and measure name
RegistryNames(reg) ==
  {reg[e].name : e \in DOMAIN reg} \cup {reg[e].table : e \in DOMAIN reg}
  \cup UNION {{d.name} \cup Range(d.aliases) : d \in UNION {Range(reg[e].dimensions) : e \in DOMAIN reg}}
  \cup {td.name : td \in UNION {Range(reg[e].time_dimensions) : e \in DOMAIN reg}}
  \cup {m.name : m \in UNION {Range(reg[e].measures) : e \in DOMAIN reg}}

SameIgnoringCase(a, b) ==
  Len(a) = Len(b) /\ \A k \in DOMAIN a : toUpperCase(a[k]) = toUpperCase(b[k])

DoubleQuotedText(token) == <<"\"">> \o token \o <<"\"">>

\* the step just taken was the double-quote branch, and what it emitted is
\* the end of the output so far
TokenStep ==
  /\ last.branch = "double"
  /\ Len(result) >= Len(last.emit)
  /\ SubSeq(result, Len(result) - Len(last.emit) + 1, Len(result)) = last.emit

\* C3 as stated: a double-quoted token equal, in any letter case, to a known
\* name of the registry is kept double-quoted
C3_AnyCaseKept ==
  (last.branch = "double"
    /\ \E n \in RegistryNames(registry) : SameIgnoringCase(n, last.token))
  => (TokenStep /\ last.emit = DoubleQuotedText(last.token))

\* what the lookup does guarantee: a double-quoted token that is a known name
\* of the registry as written, or whose lowercased form is a known name, is
\* kept double-quoted
ExactOrLowercasedKept ==
  (last.branch = "double"
    /\ (last.token \in RegistryNames(registry)
        \/ toLowerCase(last.token) \in RegistryNames(registry)))
  => (TokenStep /\ last.emit = DoubleQuotedText(last.token))

C3_LowercasedLookupReached ==
  /\ TokenStep
  /\ last.token \notin RegistryNames(registry)
  /\ toLowerCase(last.token) \in RegistryNames(registry)
  /\ ~identifierPattern(last.token)
  /\ last.emit = DoubleQuotedText(last.token)

QuotesBefore(t, k) == Cardinality({j \in 1..(k - 1) : t[j] = "'"})

\* e is t with every single quote doubled and nothing else changed
IsDoubled(e, t) ==
  /\ Len(e) = Len(t) + QuotesBefore(t, Len(t) + 1)
  /\ \A k \in DOMAIN t :
       /\ e[k + QuotesBefore(t, k)] = t[k]
       /\ t[k] = "'" => e[k + QuotesBefore(t, k) + 1] = "'"

NotAnIdentifier(token, reg) ==
  /\ token \notin RegistryNames(reg)
  /\ toLowerCase(token) \notin RegistryNames(reg)
  /\ ~identifierPattern(token)

\* C5: a double-quoted token outside single-quoted spans that is not a known
\* name (as written or lowercased) and is no lexical identifier is emitted in
\* single quotes, its single quotes doubled and nothing else changed
C5_LiteralRequoted ==
  (last.branch = "double" /\ NotAnIdentifier(last.token, registry))
  => /\ TokenStep
     /\ Len(last.emit) >= 2
     /\ Head(last.emit) = "'"
     /\ last.emit[Len(last.emit)] = "'"
     /\ IsDoubled(SubSeq(last.emit, 2, Len(last.emit) - 1), last.token)

C5_Witness ==
  /\ TokenStep
  /\ NotAnIdentifier(last.token, registry)
  /\ Cardinality({k \in DOMAIN last.token : last.token[k] = "'"}) = 2
  /\ Len(last.emit) = Len(last.token) + 4

\* no single quote after 0-based position p closes the span opened at p
UnclosedSingle(s, p) ==
  ~\E k \in (p + 1)..(Len(s) - 1) : at(s, k) = "'" /\ at(s, k - 1) # "\\"

\* no double quote follows the one at 0-based position p
UnclosedDouble(s, p) ==
  ~\E k \in (p + 1)..(Len(s) - 1) : at(s, k) = "\""

\* C11: the scan terminates and returns text: every iteration of the outer
\* loop, in each of its three branches, moves the cursor strictly forward, the
\* cursor never passes Len(sql) + 1, the loop is never stuck before it returns,
\* and an unterminated single or double quote consumes the rest of the input
\* and ends the scan
C11_ScanTerminates ==
  /\ last.branch \in {"single", "double", "regular"} => i > last.from
  /\ i <= Len(sql) + 1
  /\ pc = "scan" => ENABLED NextNorm
  /\ (last.branch = "single" /\ UnclosedSingle(sql, last.from))
       => /\ i = Len(sql)
          /\ last.emit = SubSeq(sql, last.from + 1, Len(sql))
          /\ ENABLED Return \/ pc = "returned"
  /\ (last.branch = "double" /\ UnclosedDouble(sql, last.from))
       => /\ i = Len(sql) + 1
          /\ last.token = SubSeq(sql, last.from + 2, Len(sql))
          /\ ENABLED Return \/ pc = "returned"
  /\ pc = "returned" =>
       /\ i >= Len(sql)
       /\ result \in Seq(NormChars)

C11_Witness ==
  /\ pc = "returned"
  /\ last.branch = "double"
  /\ UnclosedDouble(sql, last.from)
  /\ last.from > 0
  /\ \E k \in 0..(last.from - 1) : at(sql, k) = "'" /\ UnclosedSingle(sql, k) = FALSE
  /\ i = Len(sql) + 1

(***************************************************************************)
(* Properties of semanticCheck (checked under SpecSem)                     *)
(***************************************************************************)
Occurrences(x, seq) == Cardinality({k \in DOMAIN seq : seq[k] = x})

\* C6: each selected entity that is not a key of the registry is reported by
\* exactly one 'not loaded' issue (one per listing in selectedEntities), an
\* entity that is a key by none, and a missing selected entity makes ok false
C6_NotLoadedPerMissingEntity ==
  pc = "checked" =>
    /\ \A e \in Range(plan.selectedEntities) :
         Occurrences(NotLoaded(e), sem.issues) =
           IF e \in DOMAIN registry THEN 0
           ELSE Occurrences(e, plan.selectedEntities)
    /\ Cardinality({k \in DOMAIN sem.issues :
                      sem.issues[k].text = NotLoaded(<<>>).text})
         = Cardinality({k \in DOMAIN plan.selectedEntities :
                          plan.selectedEntities[k] \notin DOMAIN registry})
    /\ (\E e \in Range(plan.selectedEntities) : e \notin DOMAIN registry) => ~sem.ok

C6_Witness ==
  /\ pc = "checked"
  /\ Len(plan.selectedEntities) = 2
  /\ plan.selectedEntities[1] \in DOMAIN registry
  /\ plan.selectedEntities[2] \notin DOMAIN registry
  /\ Occurrences(NotLoaded(plan.selectedEntities[2]), sem.issues) = 1
  /\ ~sem.ok

\* the canonical name of alias a of entity ent is a dimension or a time dimension of ent
AliasOfField(ent, a) ==
  /\ a \in DOMAIN ent._reverseAliasIndex
  /\ \/ ent._reverseAliasIndex[a] \in ent._dimIndex
     \/ ent._reverseAliasIndex[a] \in {td.name : td \in Range(ent.time_dimensions)}

\* f is a dimension, a time dimension, or an alias of one, of entity ent
FieldOf(ent, f) ==
  \/ f \in ent._dimIndex
  \/ f \in {td.name : td \in Range(ent.time_dimensions)}
  \/ AliasOfField(ent, f)

\* d is a bare alias of a field of some entity, or entity.alias for an alias
\* of a field of that entity
AliasReference(d, reg) ==
  \/ /\ "." \notin Range(d)
     /\ \E e \in DOMAIN reg : AliasOfField(reg[e], d)
  \/ \E e \in DOMAIN reg : \E a \in DOMAIN reg[e]._reverseAliasIndex :
       d = e \o <<".">> \o a /\ AliasOfField(reg[e], a)

\* d is entity.field for a loaded entity that has no such field or alias
ForeignDottedReference(d, reg) ==
  \E e \in DOMAIN reg : \E f \in {region, day, stale, country, label} :
    d = e \o <<".">> \o f /\ ~FieldOf(reg[e], f)

NoOtherDefects ==
  /\ ~policy.throws
  /\ \A e \in Range(plan.selectedEntities) : e \in DOMAIN registry
  /\ \A j \in Range(plan.joinGraph) : j.from \in DOMAIN registry /\ j.to \in DOMAIN registry
  /\ plan.intent.metrics = <<>>
  /\ plan.intent.timeRange =>
       \E e \in DOMAIN registry : registry[e].time_dimensions # <<>>

\* C7: a dimension reference that is an alias of a dimension or time dimension
\* resolves, bare against any entity and dotted within the named entity only:
\* no 'Dimension not found' issue for it, and ok = true when nothing else is wrong
C7_AliasResolution ==
  pc = "checked" =>
    /\ \A d \in Range(plan.intent.dimensions) :
         /\ AliasReference(d, registry) => DimensionNotFound(d) \notin Range(sem.issues)
         /\ ForeignDottedReference(d, registry) => DimensionNotFound(d) \in Range(sem.issues)
    /\ (NoOtherDefects
        /\ \A d \in Range(plan.intent.dimensions) : AliasReference(d, registry))
       => sem.ok

C7_Witness ==
  /\ pc = "checked"
  /\ NoOtherDefects
  /\ plan.intent.dimensions = <<region, dotted(customers, region)>>
  /\ AliasReference(region, registry)
  /\ AliasReference(dotted(customers, region), registry)
  /\ sem.ok

PolicyReturns == CHOOSE o \in PolicyOutcomes : ~o.throws

\* C8: when verifyAllowedTables throws, semanticCheck does not raise: the
\* thrown text is the first issue, every other check still runs and adds its
\* issues (those of the same call with a passing policy), and the result is
\* ok = false, semanticOk = false
C8_PolicyErrorBecomesIssue ==
  pc = "checked" =>
    /\ ~sem.raised
    /\ policy.throws =>
         /\ sem.issues # <<>>
         /\ Head(sem.issues) =
              Issue(IF policy.error.hasMessage THEN policy.error.message
                    ELSE policy.error.value, <<>>)
         /\ Tail(sem.issues) = semanticCheck(plan, registry, PolicyReturns).issues
         /\ ~sem.ok /\ ~sem.semanticOk

C8_Witness ==
  /\ pc = "checked"
  /\ policy.throws
  /\ ~sem.raised
  /\ Len(sem.issues) >= 6
  /\ \E e \in Range(plan.selectedEntities) : NotLoaded(e) \in Range(sem.issues)
  /\ \E d \in Range(plan.intent.dimensions) : DimensionNotFound(d) \in Range(sem.issues)
  /\ NoTimeDimensions \in Range(sem.issues)
  /\ ~sem.ok

(***************************************************************************)
(* Properties of syntaxScan (checked under SpecScan)                       *)
(***************************************************************************)
Semicolons(s) == {k \in DOMAIN s : s[k] = ";"}

\* the text has no ';', or one ';' and nothing but white space after it
OptionalTerminatorOnly(s) ==
  \/ Semicolons(s) = {}
  \/ /\ Cardinality(Semicolons(s)) = 1
     /\ \A k \in DOMAIN s : (\E j \in Semicolons(s) : k > j) => s[k] \in WhiteSpace

\* s[a..b] is a maximal run of word characters that spells word in some letter case
IsWordAt(word, s, a, b) ==
  /\ b - a + 1 = Len(word)
  /\ \A k \in a..b : IsWordChar(s[k]) /\ toUpperCase(s[k]) = word[k - a + 1]
  /\ a = 1 \/ ~IsWordChar(s[a - 1])
  /\ b = Len(s) \/ ~IsWordChar(s[b + 1])

WholeWord(word, s) ==
  \E a \in 1..(Len(s) - Len(word) + 1) : IsWordAt(word, s, a, a + Len(word) - 1)

\* word occurs in s, in some letter case, anywhere
Occurs(word, s) ==
  \E p \in 1..(Len(s) - Len(word) + 1) :
    \A k \in DOMAIN word : toUpperCase(s[p + k - 1]) = word[k]

Times(x, seq) == Cardinality({k \in DOMAIN seq : seq[k] = x})

\* C1: syntaxScan accepts only text with no ';' or with a single trailing ';'
\* (trailing white space aside); any other use of ';' gives ok = false and the
\* issue 'Multiple statements detected.'
C1_SingleStatement ==
  pc = "scanned" =>
    /\ res.ok => OptionalTerminatorOnly(sql)
    /\ ~OptionalTerminatorOnly(sql) =>
         ~res.ok /\ MultipleStatements \in Range(res.issues)

C1_Witness ==
  /\ pc = "scanned"
  /\ Cardinality(Semicolons(sql)) = 1
  /\ ~OptionalTerminatorOnly(sql)
  /\ ~res.ok
  /\ MultipleStatements \in Range(res.issues)

\* C2: every disallowed keyword that occurs as a whole word, in any letter
\* case, makes ok false and is reported by exactly one 'Disallowed token'
\* issue naming its pattern; a keyword that occurs only inside a longer word
\* is not reported
C2_DisallowedKeywords ==
  pc = "scanned" =>
    \A k \in DOMAIN DISALLOWED :
      IF WholeWord(DISALLOWED[k].word, sql)
      THEN ~res.ok /\ Times(DisallowedToken(DISALLOWED[k]), res.issues) = 1
      ELSE Times(DisallowedToken(DISALLOWED[k]), res.issues) = 0

C2_Witness ==
  /\ pc = "scanned"
  /\ \E k \in DOMAIN DISALLOWED :
       /\ Occurs(DISALLOWED[k].word, sql)
       /\ ~WholeWord(DISALLOWED[k].word, sql)
  /\ \E k \in DOMAIN DISALLOWED :
       /\ WholeWord(DISALLOWED[k].word, sql)
       /\ res.issues = <<DisallowedToken(DISALLOWED[k])>>

OpenMarks(s)  == {k \in 1..(Len(s) - 1) : s[k] = "/" /\ s[k + 1] = "*"}
CloseMarks(s) == {k \in 1..(Len(s) - 1) : s[k] = "*" /\ s[k + 1] = "/"}

ExpectedIssues(s) ==
  LET Hit(rx) == WholeWord(rx.word, s)
      hits    == SelectSeq(DISALLOWED, Hit)
  IN  (IF OptionalTerminatorOnly(s) THEN <<>> ELSE <<MultipleStatements>>)
      \o [k \in DOMAIN hits |-> DisallowedToken(hits[k])]
      \o (IF Cardinality(OpenMarks(s)) = Cardinality(CloseMarks(s))
          THEN <<>> ELSE <<UnmatchedComment>>)

\* C9: all three rules are applied to every input: the issues are the
\* multi-statement issue (if violated), then one issue per matching keyword
\* pattern, then the block-comment issue (if the marker counts differ); and
\* ok is true exactly when there is no issue
C9_AllRulesInOrder ==
  pc = "scanned" =>
    /\ res.issues = ExpectedIssues(sql)
    /\ res.ok <=> (res.issues = <<>>)

C9_Witness ==
  /\ pc = "scanned"
  /\ Len(res.issues) = 3
  /\ res.issues[1] = MultipleStatements
  /\ res.issues[3] = UnmatchedComment
  /\ ~res.ok

(***************************************************************************)
(* Properties of the pipeline normalizeSQLiteQuotes -> syntaxScan          *)
(***************************************************************************)
RECURSIVE quoteState(_, _, _)
\* where a left-to-right reading of s from 0-based position k ends, having
\* started in state q: outside any quote, inside a single-quoted span (closed
\* by a ' not preceded by \), or inside a double-quoted token
quoteState(s, k, q) ==
  IF k >= Len(s) THEN q
  ELSE
    LET c == at(s, k) IN
    CASE q = "outside" ->
           quoteState(s, k + 1, IF c = "'" THEN "single"
                                ELSE IF c = "\"" THEN "double" ELSE "outside")
      [] q = "single" ->
           quoteState(s, k + 1, IF c = "'" /\ at(s, k - 1) # "\\"
                                THEN "outside" ELSE "single")
      [] q = "double" ->
           quoteState(s, k + 1, IF c = "\"" THEN "outside" ELSE "double")

\* every double quote opened outside a single-quoted span is closed
QuotesClosed(s) == quoteState(s, 0, "outside") # "double"

\* the text without its quote characters
Unquoted(s) == SelectSeq(s, LAMBDA c : c \notin {"\"", "'"})

\* C12: for every registry and every SQL text whose double quotes opened
\* outside a single-quoted span are all closed, syntaxScan of the normalized
\* text returns the same ok and the same issues list as syntaxScan of the
\* original text, and normalization leaves every character other than a quote
\* in place
C12_VerdictUnchanged ==
  (pc \in {"normalized", "scanned"} /\ QuotesClosed(sql)) =>
    /\ Unquoted(result) = Unquoted(sql)
    /\ pc = "scanned" => res = syntaxScan(sql)

C12_Witness ==
  /\ pc = "scanned"
  /\ QuotesClosed(sql)
  /\ result # sql
  /\ ~res.ok
  /\ Len(res.issues) >= 2

(***************************************************************************)
(* Properties of isQuoteSyntaxError (checked under SpecErr)                *)
(***************************************************************************)
MentionsTokenSyntaxOrNear(msg) ==
  \/ testIgnoreCase(UnrecognizedTokenText, msg)
  \/ testIgnoreCase(SyntaxErrorText, msg)
  \/ testIgnoreCase(NearText, msg)

\* C10: a message that mentions neither 'unrecognized token', 'syntax error'
\* nor 'near' is matched only if it is a 'no such column' error whose quoted
\* column name starts with an uppercase letter and is not all capitals and
\* underscores; any other such message gives null
C10_OnlyUppercaseFirstNames ==
  (pc = "classified" /\ ~MentionsTokenSyntaxOrNear(err) /\ info.matched)
  => /\ testIgnoreCase(NoSuchColumnText, err)
     /\ columnName(err) # <<>>
     /\ columnName(err)[1] \in Range(Uppers)
     /\ ~capsAndUnderscores(columnName(err))

====
